---- MODULE Spec2Model ----
(***************************************************************************)
(* Birthday reminder function app: the four handlers of function_app.py,   *)
(* the audit protocol and the two birthday queries of SqlClient, the       *)
(* connection factory _get_connection, the lookups of birthday.py and the  *)
(* email stubs of emailer.py.                                              *)
(*                                                                         *)
(* Three specifications share the module:                                  *)
(*   Spec      handler invocations against dbo.system_events               *)
(*   SpecConn  calls of the connection factory, attempt by attempt         *)
(*   SpecData  the query, lookup and send functions applied to tables      *)
(*             and reference dates drawn from bounded sets                 *)
(***************************************************************************)
EXTENDS Integers, Sequences, FiniteSets, TLC

VARIABLES
    \* ---- handler invocations (function_app.py) ----
    handler,        \* invocation -> handler function running it, or NoHandler
    pc,             \* invocation -> position in the handler
    system_event,   \* invocation -> id held in the local system_event, or NoId
    exc,            \* invocation -> exception caught / propagating, or NoExc
    response,       \* invocation -> value returned to the host
    trace,          \* invocation -> the calls made so far and how each ended
    summary_df,     \* invocation -> the local summary_df
    \* ---- database ----
    system_events,  \* dbo.system_events: sequence of rows
    clock,          \* SYSUTCDATETIME(), a logical clock
    Birthdays,      \* dbo.Birthdays: sequence of records
    today,          \* datetime.datetime.now().date()
    \* ---- connection factory (_get_connection) ----
    call_no,        \* which call of the factory this is (0: none yet)
    cpc,            \* position inside the factory
    attempt,        \* loop variable
    delay_seconds,  \* local delay_seconds
    last_exc,       \* local last_exc
    conn_log,       \* this call's events: tokens minted, connects, sleeps
    conn_result,    \* what the call returned or raised
    tokens_minted,  \* tokens minted so far by the credential, over all calls
    \* ---- functions applied to drawn inputs ----
    ret             \* the last function application and its outcome

hvars == <<handler, pc, system_event, exc, response, trace, summary_df,
           system_events, clock>>
dvars == <<Birthdays, today, ret>>
cvars == <<call_no, cpc, attempt, delay_seconds, last_exc, conn_log,
           conn_result, tokens_minted>>
vars == <<hvars, dvars, cvars>>

-----------------------------------------------------------------------------
(* Values *)

\* Python None / SQL NULL where a string is expected
NULL == "<NULL>"
\* SQL NULL in completed_at (timestamps are positive)
NullTime == 0
\* no UUID
NoId == 0

\* Exceptions: type and args; str(exc) is args[0] for one argument and ""
\* for none.
NoExc == [type |-> "None", args |-> <<>>]

str(e) == IF Len(e.args) = 0 THEN "" ELSE e.args[1]

\* str(uuid): the canonical text of a UUID, a value distinct from the UUID
UuidStr(u) == <<"uuid", u>>
\* UUID(text)
UuidParse(s) == s[2]

Ok(v) == [raised |-> NoExc, value |-> v]
Raise(e) == [raised |-> e, value |-> NULL]

\* What the database layer can raise on a connectivity or constraint error:
\* an error carrying the driver's text, and an error constructed without
\* arguments (whose str() is the empty string).
DbErrors == { [type |-> "OperationalError", args |-> <<"Login timeout expired">>],
              [type |-> "Error", args |-> <<>>] }
DbOutcomes == {NoExc} \cup DbErrors

\* Mutant: the lookups accept the system_event_id keyword
ParamsWithSystemEventId(fn) ==
    CASE fn = "get_daily_birthdays" -> {"sql_client", "system_event_id"}
      [] fn = "get_monthly_birthday_summary" -> {"sql_client", "system_event_id"}
      [] fn = "send_monthly_birthday_summary_email" -> {"summary_df"}
      [] fn = "send_daily_birthday_emails" -> {"birthdays_df"}

-----------------------------------------------------------------------------
(* Keyword-only calls *)

Params(fn) ==
    CASE fn = "get_daily_birthdays" -> {"sql_client"}
      [] fn = "get_monthly_birthday_summary" -> {"sql_client"}
      [] fn = "send_monthly_birthday_summary_email" -> {"summary_df"}
      [] fn = "send_daily_birthday_emails" -> {"birthdays_df"}

UnexpectedKeywordText(fn, kw) ==
    CASE fn = "get_daily_birthdays" /\ kw = "system_event_id" ->
            "get_daily_birthdays() got an unexpected keyword argument 'system_event_id'"
      [] fn = "get_monthly_birthday_summary" /\ kw = "system_event_id" ->
            "get_monthly_birthday_summary() got an unexpected keyword argument 'system_event_id'"
      [] fn = "send_daily_birthday_emails" /\ kw = "summary_df" ->
            "send_daily_birthday_emails() got an unexpected keyword argument 'summary_df'"
      [] OTHER -> "got an unexpected keyword argument"

MissingKeywordText(fn, kw) ==
    CASE fn = "send_daily_birthday_emails" /\ kw = "birthdays_df" ->
            "send_daily_birthday_emails() missing 1 required keyword-only argument: 'birthdays_df'"
      [] OTHER -> "missing required keyword-only argument"

\* Binding the keywords of a call to a function whose parameters are all
\* keyword-only and required: an unexpected keyword is reported first, then
\* a missing one; NoExc when the call binds.
BindKeywords(fn, kwargs) ==
    IF kwargs \ Params(fn) # {}
    THEN [type |-> "TypeError",
          args |-> <<UnexpectedKeywordText(fn, CHOOSE k \in kwargs \ Params(fn) : TRUE)>>]
    ELSE IF Params(fn) \ kwargs # {}
    THEN [type |-> "TypeError",
          args |-> <<MissingKeywordText(fn, CHOOSE k \in Params(fn) \ kwargs : TRUE)>>]
    ELSE NoExc

-----------------------------------------------------------------------------
(* dbo.Birthdays and the two queries *)

MONTH(d) == d.month
DAY(d) == d.day

\* The collation order of the strings stored in the table
Collate(s) ==
    CASE s = "Alice" -> 1
      [] s = "Bob" -> 2
      [] s = "Carol" -> 3
      [] s = "a@x.com" -> 1
      [] s = "b@x.com" -> 2
      [] s = "c@x.com" -> 3

\* Lexicographic order on ORDER BY keys (tuples of numbers of equal length)
RECURSIVE KeyLess(_, _)
KeyLess(k1, k2) ==
    IF Len(k1) = 0 THEN FALSE
    ELSE IF k1[1] # k2[1] THEN k1[1] < k2[1]
    ELSE KeyLess(Tail(k1), Tail(k2))

\* ORDER BY: rows carry their key; a row goes after the rows whose key is
\* not greater
RECURSIVE InsertByKey(_, _)
InsertByKey(r, sorted) ==
    IF Len(sorted) = 0 THEN <<r>>
    ELSE IF KeyLess(r.key, sorted[1].key) THEN <<r>> \o sorted
    ELSE <<sorted[1]>> \o InsertByKey(r, Tail(sorted))

RECURSIVE OrderBy(_)
OrderBy(rows) ==
    IF Len(rows) = 0 THEN <<>>
    ELSE InsertByKey(rows[Len(rows)], OrderBy(SubSeq(rows, 1, Len(rows) - 1)))

\* Mutant: the WHERE clause compares the day only
WhereDateDayOnly(r, date) == DAY(r.date_of_birth) = DAY(date)

\* WHERE MONTH(date_of_birth) = MONTH(:date) AND DAY(date_of_birth) = DAY(:date)
WhereDate(r, date) ==
    /\ MONTH(r.date_of_birth) = MONTH(date)
    /\ DAY(r.date_of_birth) = DAY(date)

\* ORDER BY EmailTo, FullName
OrderKeyDate(r) == <<Collate(r.EmailTo), Collate(r.FullName)>>

\* The SELECT of get_birthdays_for_date and the list built from its rows
SelectBirthdaysForDate(tbl, date) ==
    LET hit == SelectSeq(tbl, LAMBDA r : WhereDate(r, date))
        keyed == [i \in 1..Len(hit) |->
                    [key |-> OrderKeyDate(hit[i]),
                     FullName |-> hit[i].FullName,
                     EmailTo |-> hit[i].EmailTo]]
        result == OrderBy(keyed)
    IN [i \in 1..Len(result) |->
            [name |-> result[i].FullName, email_to |-> result[i].EmailTo]]

\* WHERE MONTH(date_of_birth) = MONTH(:date)
WhereMonth(r, date) == MONTH(r.date_of_birth) = MONTH(date)

\* Mutant: ORDER BY EmailTo, FullName, DAY(date_of_birth)
OrderKeyMonthNameFirst(r) ==
    <<Collate(r.EmailTo), Collate(r.FullName), DAY(r.date_of_birth)>>

\* ORDER BY EmailTo, DAY(date_of_birth), FullName
OrderKeyMonth(r) ==
    <<Collate(r.EmailTo), DAY(r.date_of_birth), Collate(r.FullName)>>

\* The SELECT of get_birthdays_for_month and the list built from its rows
SelectBirthdaysForMonth(tbl, date) ==
    LET hit == SelectSeq(tbl, LAMBDA r : WhereMonth(r, date))
        keyed == [i \in 1..Len(hit) |->
                    [key |-> OrderKeyMonth(hit[i]),
                     FullName |-> hit[i].FullName,
                     birthday_day |-> DAY(hit[i].date_of_birth),
                     EmailTo |-> hit[i].EmailTo]]
        result == OrderBy(keyed)
    IN [i \in 1..Len(result) |->
            [name |-> result[i].FullName,
             birthday_day |-> result[i].birthday_day,
             email_to |-> result[i].EmailTo]]

\* SqlClient.get_birthdays_for_date: o is what the database does on this
\* call (NoExc: the connection and the query succeed); an error is logged
\* and re-raised.
get_birthdays_for_date(tbl, date, o) ==
    IF o # NoExc THEN Raise(o) ELSE Ok(SelectBirthdaysForDate(tbl, date))

\* SqlClient.get_birthdays_for_month
get_birthdays_for_month(tbl, date, o) ==
    IF o # NoExc THEN Raise(o) ELSE Ok(SelectBirthdaysForMonth(tbl, date))

-----------------------------------------------------------------------------
(* birthday.py *)

\* pd.DataFrame(list_of_dicts, columns=cols): one row per dict, in order,
\* holding the named columns
DataFrame(list, cols) ==
    [columns |-> cols,
     rows |-> [i \in 1..Len(list) |->
                 [c \in {cols[k] : k \in 1..Len(cols)} |-> list[i][c]]]]

\* Mutant: an error of the query is swallowed and an empty DataFrame returned
get_daily_birthdays_swallows(kwargs, tbl, date, o) ==
    LET bound == BindKeywords("get_daily_birthdays", kwargs)
        name_dict_list == get_birthdays_for_date(tbl, date, o)
    IN IF bound # NoExc THEN Raise(bound)
       ELSE IF name_dict_list.raised # NoExc
            THEN Ok(DataFrame(<<>>, <<"name", "email_to">>))
       ELSE Ok(DataFrame(name_dict_list.value, <<"name", "email_to">>))

\* get_daily_birthdays(**kwargs)
get_daily_birthdays(kwargs, tbl, date, o) ==
    LET bound == BindKeywords("get_daily_birthdays", kwargs)
        name_dict_list == get_birthdays_for_date(tbl, date, o)
    IN IF bound # NoExc THEN Raise(bound)
       ELSE IF name_dict_list.raised # NoExc THEN Raise(name_dict_list.raised)
       ELSE Ok(DataFrame(name_dict_list.value, <<"name", "email_to">>))

\* get_monthly_birthday_summary(**kwargs)
get_monthly_birthday_summary(kwargs, tbl, date, o) ==
    LET bound == BindKeywords("get_monthly_birthday_summary", kwargs)
        birthday_dict_list == get_birthdays_for_month(tbl, date, o)
    IN IF bound # NoExc THEN Raise(bound)
       ELSE IF birthday_dict_list.raised # NoExc THEN Raise(birthday_dict_list.raised)
       ELSE Ok(DataFrame(birthday_dict_list.value, <<"name", "birthday_day", "email_to">>))

-----------------------------------------------------------------------------
(* emailer.py *)

\* send_monthly_birthday_summary_email(**kwargs): the body is `pass`
send_monthly_birthday_summary_email(kwargs, df) ==
    LET bound == BindKeywords("send_monthly_birthday_summary_email", kwargs)
    IN [raised |-> bound, provider_calls |-> 0]

\* send_daily_birthday_emails(**kwargs): the body is `pass`
send_daily_birthday_emails(kwargs, df) ==
    LET bound == BindKeywords("send_daily_birthday_emails", kwargs)
    IN [raised |-> bound, provider_calls |-> 0]

-----------------------------------------------------------------------------
(* dbo.system_events *)

\* The INSERT of start_system_event: the row gets a fresh id; completed_at
\* is not set. session is the invocation whose call ran the statement
\* (bookkeeping for the model, not a column).
InsertSystemEvent(tbl, function_name, trigger_type, event_type, status, details, now, session) ==
    Append(tbl, [id |-> Len(tbl) + 1,
                 function_name |-> function_name,
                 trigger_type |-> trigger_type,
                 event_type |-> event_type,
                 status |-> status,
                 details |-> details,
                 started_at |-> now,
                 completed_at |-> NullTime,
                 session |-> session])

\* Mutant: the SET list lacks status
UpdateSystemEventKeepsStatus(tbl, system_event_id, status, details, now) ==
    [k \in DOMAIN tbl |->
        IF tbl[k].id = system_event_id
        THEN [tbl[k] EXCEPT !.completed_at = now, !.details = details]
        ELSE tbl[k]]

\* Mutant: the UPDATE lacks its WHERE clause
UpdateSystemEventNoWhere(tbl, system_event_id, status, details, now) ==
    [k \in DOMAIN tbl |->
        [tbl[k] EXCEPT !.status = status,
                       !.completed_at = now,
                       !.details = details]]

\* Mutant: details is set only when a value is passed
UpdateSystemEventKeepsDetails(tbl, system_event_id, status, details, now) ==
    [k \in DOMAIN tbl |->
        IF tbl[k].id = system_event_id
        THEN [tbl[k] EXCEPT !.status = status,
                            !.completed_at = now,
                            !.details = IF details = NULL THEN @ ELSE details]
        ELSE tbl[k]]

\* The UPDATE of complete_system_event: WHERE id = :system_event_id
UpdateSystemEvent(tbl, system_event_id, status, details, now) ==
    [k \in DOMAIN tbl |->
        IF tbl[k].id = system_event_id
        THEN [tbl[k] EXCEPT !.status = status,
                            !.completed_at = now,
                            !.details = details]
        ELSE tbl[k]]

\* Mutant: conn.commit() is missing, so the id is returned but the row is
\* rolled back when the connection closes
start_system_event_without_commit(tbl, function_name, trigger_type, event_type, status, details, now, session, o) ==
    LET inserted == InsertSystemEvent(tbl, function_name, trigger_type,
                                      event_type, status, details, now, session)
    IN IF o # NoExc
       THEN [raised |-> o, value |-> NoId, table |-> tbl]
       ELSE [raised |-> NoExc,
             value |-> UuidParse(UuidStr(inserted[Len(inserted)].id)),
             table |-> tbl]

\* Mutant: the error strikes after the commit, so the row stays
start_system_event_commits_then_raises(tbl, function_name, trigger_type, event_type, status, details, now, session, o) ==
    LET inserted == InsertSystemEvent(tbl, function_name, trigger_type,
                                      event_type, status, details, now, session)
    IN IF o # NoExc
       THEN [raised |-> o, value |-> NoId, table |-> inserted]
       ELSE [raised |-> NoExc,
             value |-> UuidParse(UuidStr(inserted[Len(inserted)].id)),
             table |-> inserted]

\* SqlClient.start_system_event: o is what the database does on this call.
\* On success the row is inserted and committed and the id read back from
\* OUTPUT INSERTED.id is returned as SystemEvent(id=UUID(str(row[0]))); on
\* an error nothing is committed and the error is logged and re-raised.
start_system_event(tbl, function_name, trigger_type, event_type, status, details, now, session, o) ==
    IF o # NoExc
    THEN [raised |-> o, value |-> NoId, table |-> tbl]
    ELSE LET inserted == InsertSystemEvent(tbl, function_name, trigger_type,
                                           event_type, status, details, now, session)
             row == <<inserted[Len(inserted)].id>>
         IN [raised |-> NoExc,
             value |-> UuidParse(UuidStr(row[1])),
             table |-> inserted]

\* Mutant: the except block logs the error and does not re-raise it
complete_system_event_swallows(tbl, system_event_id, status, details, now, o) ==
    IF o # NoExc
    THEN [raised |-> NoExc, table |-> tbl]
    ELSE [raised |-> NoExc,
          table |-> UpdateSystemEvent(tbl, system_event_id, status, details, now)]

\* SqlClient.complete_system_event: on success the UPDATE is committed; on
\* an error nothing is committed and the error is logged and re-raised.
complete_system_event(tbl, system_event_id, status, details, now, o) ==
    IF o # NoExc
    THEN [raised |-> o, table |-> tbl]
    ELSE [raised |-> NoExc,
          table |-> UpdateSystemEvent(tbl, system_event_id, status, details, now)]

-----------------------------------------------------------------------------
(* function_app.py: the four handlers *)

\* Number of handler invocations followed
MaxInv == 2
Invocations == 1..MaxInv

TimerHandlers == {"MonthlyBirthdaySummary", "DailyBirthdaySummary"}
HttpHandlers == {"MonthlyBirthdaySummaryTest", "DailyBirthdaySummaryTest"}
Handlers == TimerHandlers \cup HttpHandlers
MonthlyHandlers == {"MonthlyBirthdaySummary", "MonthlyBirthdaySummaryTest"}
NoHandler == "none"

\* function_name passed to start_system_event, also the name in the log
\* lines and in the HTTP error message
FunctionName(h) ==
    IF h \in MonthlyHandlers THEN "MonthlyBirthdaySummaryFunction"
    ELSE "DailyBirthdaySummaryFunction"

\* Keywords of the handlers' calls
FetchKwargs == {"sql_client", "system_event_id"}
SendKwargs == {"summary_df"}

\* summary_df = get_monthly_birthday_summary(sql_client=..., system_event_id=...)
\* summary_df = get_daily_birthdays(sql_client=..., system_event_id=...)
CallFetch(h, tbl, date, o) ==
    IF h \in MonthlyHandlers
    THEN get_monthly_birthday_summary(FetchKwargs, tbl, date, o)
    ELSE get_daily_birthdays(FetchKwargs, tbl, date, o)

\* send_monthly_birthday_summary_email(summary_df=summary_df)
\* send_daily_birthday_emails(summary_df=summary_df)
CallSend(h, df) ==
    IF h \in MonthlyHandlers
    THEN send_monthly_birthday_summary_email(SendKwargs, df)
    ELSE send_daily_birthday_emails(SendKwargs, df)

\* Mutant: the except block passes no details
FailedDetailsOmitted(e) == NULL

\* Mutant: the event is kept in one module-level variable, so a handler
\* sees the event of whichever invocation started last
SharedSystemEventId(i) ==
    IF Len(system_events) = 0 THEN NoId ELSE system_events[Len(system_events)].id

\* system_event.id: system_event is a local of the handler
SystemEventId(i) == system_event[i]

\* The details passed by the except block
FailedDetails(e) == str(e)

\* What a handler returns
None == [status_code |-> 0, body |-> NULL]
ErrorResponse(h, id) ==
    [status_code |-> 500,
     body |-> [status |-> "error",
               message |-> IF h \in MonthlyHandlers
                           THEN "MonthlyBirthdaySummaryFunction failed"
                           ELSE "DailyBirthdaySummaryFunction failed",
               system_event_id |-> UuidStr(id)]]

\* The return statement of the except block: the HTTP handlers return the
\* 500 response (the raise after it is not reached); the timer handlers
\* fall off the end.
ExceptReturn(h, id) == IF h \in HttpHandlers THEN ErrorResponse(h, id) ELSE None

NoDataFrame == [columns |-> <<>>, rows |-> <<>>]

Step(call, e) == [call |-> call, raised |-> e]

HInit ==
    /\ handler = [i \in Invocations |-> NoHandler]
    /\ pc = [i \in Invocations |-> "idle"]
    /\ system_event = [i \in Invocations |-> NoId]
    /\ exc = [i \in Invocations |-> NoExc]
    /\ response = [i \in Invocations |-> None]
    /\ trace = [i \in Invocations |-> <<>>]
    /\ summary_df = [i \in Invocations |-> NoDataFrame]
    /\ system_events = <<>>
    /\ clock = 1

\* The host invokes handler h (a timer fires, an HTTP request arrives)
Invoke(i, h) ==
    /\ pc[i] = "idle"
    /\ \A j \in Invocations : j < i => pc[j] # "idle"
    /\ handler' = [handler EXCEPT ![i] = h]
    /\ pc' = [pc EXCEPT ![i] = "start"]
    /\ UNCHANGED <<system_event, exc, response, trace, summary_df,
                   system_events, clock>>
    /\ UNCHANGED <<dvars, cvars>>

\* system_event = sql_client.start_system_event(...), before the try: an
\* exception leaves the handler
StartSystemEvent(i) ==
    /\ pc[i] = "start"
    /\ \E o \in DbOutcomes :
        LET r == start_system_event(system_events, FunctionName(handler[i]),
                                    "timer", "ingestion", "started", NULL,
                                    clock, i, o)
        IN /\ system_events' = r.table
           /\ clock' = IF r.raised = NoExc THEN clock + 1 ELSE clock
           /\ system_event' = [system_event EXCEPT ![i] = r.value]
           /\ exc' = [exc EXCEPT ![i] = r.raised]
           /\ pc' = [pc EXCEPT ![i] = IF r.raised = NoExc THEN "fetch" ELSE "raised"]
           /\ trace' = [trace EXCEPT ![i] = Append(@, Step("start_system_event", r.raised))]
    /\ UNCHANGED <<handler, response, summary_df>>
    /\ UNCHANGED <<dvars, cvars>>

\* The next statement of the try block: the fetch, the send, or
\* complete_system_event(status="succeeded"); an exception of any of them
\* enters the except block
TryStep(i) ==
    /\ pc[i] \in {"fetch", "send", "complete"}
    /\ \E o \in DbOutcomes :
        LET fetched == CallFetch(handler[i], Birthdays, today, o)
            sent == CallSend(handler[i], summary_df[i])
            completed == complete_system_event(system_events, SystemEventId(i),
                                               "succeeded", NULL, clock, o)
            raised == CASE pc[i] = "fetch" -> fetched.raised
                        [] pc[i] = "send" -> sent.raised
                        [] pc[i] = "complete" -> completed.raised
            call == CASE pc[i] = "fetch" -> "fetch"
                      [] pc[i] = "send" -> "send"
                      [] pc[i] = "complete" -> "complete_system_event(succeeded)"
        IN /\ summary_df' = IF pc[i] = "fetch" /\ raised = NoExc
                            THEN [summary_df EXCEPT ![i] = fetched.value]
                            ELSE summary_df
           /\ system_events' = IF pc[i] = "complete" THEN completed.table
                               ELSE system_events
           /\ clock' = IF pc[i] = "complete" /\ raised = NoExc THEN clock + 1
                       ELSE clock
           /\ exc' = [exc EXCEPT ![i] = raised]
           /\ pc' = [pc EXCEPT ![i] =
                        IF raised # NoExc THEN "except"
                        ELSE CASE pc[i] = "fetch" -> "send"
                               [] pc[i] = "send" -> "complete"
                               [] pc[i] = "complete" -> "returned"]
           /\ trace' = [trace EXCEPT ![i] = Append(@, Step(call, raised))]
    /\ UNCHANGED <<handler, system_event, response>>
    /\ UNCHANGED <<dvars, cvars>>

\* except Exception as exc: complete_system_event(status="failed",
\* details=str(exc)), then the handler returns; an exception of
\* complete_system_event leaves the handler
ExceptStep(i) ==
    /\ pc[i] = "except"
    /\ \E o \in DbOutcomes :
        LET r == complete_system_event(system_events, SystemEventId(i), "failed",
                                       FailedDetails(exc[i]), clock, o)
        IN /\ system_events' = r.table
           /\ clock' = IF r.raised = NoExc THEN clock + 1 ELSE clock
           /\ exc' = IF r.raised = NoExc THEN exc ELSE [exc EXCEPT ![i] = r.raised]
           /\ pc' = [pc EXCEPT ![i] = IF r.raised = NoExc THEN "returned" ELSE "raised"]
           /\ response' = IF r.raised = NoExc
                          THEN [response EXCEPT ![i] = ExceptReturn(handler[i], SystemEventId(i))]
                          ELSE response
           /\ trace' = [trace EXCEPT ![i] = Append(@, Step("complete_system_event(failed)", r.raised))]
    /\ UNCHANGED <<handler, system_event, summary_df>>
    /\ UNCHANGED <<dvars, cvars>>

HNext ==
    \/ \E i \in Invocations, h \in Handlers : Invoke(i, h)
    \/ \E i \in Invocations : StartSystemEvent(i)
    \/ \E i \in Invocations : TryStep(i)
    \/ \E i \in Invocations : ExceptStep(i)

-----------------------------------------------------------------------------
(* sql.py: the connection factory _get_connection *)

\* Number of calls of the factory followed
MaxCalls == 2

max_attempts == 3
initial_delay_seconds == 5

\* What credential.get_token and pyodbc.connect can raise
TokenErrors == { [type |-> "ClientAuthenticationError", args |-> <<"managed identity unavailable">>] }
ConnectErrors == { [type |-> "OperationalError", args |-> <<"Login timeout expired">>],
                   [type |-> "InterfaceError", args |-> <<"Database is paused">>] }

NoConnection == [token |-> 0, attempt |-> 0]

\* An entry of the call's log: what was done in which attempt, how it ended,
\* and the token minted / the token presented / the seconds slept
Event(ev, a, e, n) == [ev |-> ev, attempt |-> a, raised |-> e, n |-> n]

CIdle ==
    /\ call_no = 0
    /\ cpc = "idle"
    /\ attempt = 0
    /\ delay_seconds = 0
    /\ last_exc = NoExc
    /\ conn_log = <<>>
    /\ conn_result = [raised |-> NoExc, value |-> NoConnection]
    /\ tokens_minted = 0

\* SQLAlchemy asks the creator for a new DBAPI connection
CallFactory ==
    /\ cpc \in {"idle", "returned", "raised"}
    /\ call_no < MaxCalls
    /\ call_no' = call_no + 1
    /\ attempt' = 1
    /\ delay_seconds' = initial_delay_seconds
    /\ last_exc' = NoExc
    /\ conn_log' = <<>>
    /\ conn_result' = [raised |-> NoExc, value |-> NoConnection]
    /\ cpc' = "get_token"
    /\ UNCHANGED tokens_minted
    /\ UNCHANGED <<hvars, dvars>>

\* Mutant: only the first exception is kept
RecordFirstException(previous, e) == IF previous = NoExc THEN e ELSE previous

\* last_exc = exc
RecordException(previous, e) == e

\* time.sleep(delay_seconds) is called after a failed attempt that is not
\* the last
SleepsAfter(a) == a < max_attempts

\* Mutant: the delay is not doubled
BackoffConstant(d) == d

\* delay_seconds *= 2
Backoff(d) == d * 2

\* The except block of the loop, then the next iteration, or the raise
\* after the loop when this was the last one. log is the call's log with
\* the failed step already entered.
OnException(e, log) ==
    /\ last_exc' = RecordException(last_exc, e)
    /\ IF SleepsAfter(attempt)
       THEN /\ conn_log' = Append(log, Event("sleep", attempt, NoExc, delay_seconds))
            /\ delay_seconds' = Backoff(delay_seconds)
       ELSE /\ conn_log' = log
            /\ delay_seconds' = delay_seconds
    /\ IF attempt + 1 <= max_attempts
       THEN /\ attempt' = attempt + 1
            /\ cpc' = "get_token"
            /\ conn_result' = conn_result
       ELSE /\ attempt' = attempt
            /\ cpc' = "raised"
            /\ conn_result' = [raised |-> RecordException(last_exc, e),
                               value |-> NoConnection]

\* attrs_before=self.get_token(): the argument is evaluated first
GetToken ==
    /\ cpc = "get_token"
    /\ \/ /\ tokens_minted' = tokens_minted + 1
          /\ conn_log' = Append(conn_log, Event("get_token", attempt, NoExc, tokens_minted + 1))
          /\ cpc' = "connect"
          /\ UNCHANGED <<attempt, delay_seconds, last_exc, conn_result>>
       \/ \E e \in TokenErrors :
            /\ OnException(e, Append(conn_log, Event("get_token", attempt, e, 0)))
            /\ UNCHANGED tokens_minted
    /\ UNCHANGED call_no
    /\ UNCHANGED <<hvars, dvars>>

\* Mutant: the first token the call minted is presented by every attempt
FirstToken ==
    LET Minted == {j \in DOMAIN conn_log :
                      conn_log[j].ev = "get_token" /\ conn_log[j].raised = NoExc}
    IN  conn_log[CHOOSE j \in Minted : \A k \in Minted : j <= k].n

\* The token this attempt minted
CurrentToken == conn_log[Len(conn_log)].n

\* pyodbc.connect(odbc_conn_str, attrs_before=token)
Connect ==
    /\ cpc = "connect"
    /\ \/ /\ conn_result' = [raised |-> NoExc,
                             value |-> [token |-> CurrentToken, attempt |-> attempt]]
          /\ conn_log' = Append(conn_log, Event("connect", attempt, NoExc, CurrentToken))
          /\ cpc' = "returned"
          /\ UNCHANGED <<attempt, delay_seconds, last_exc>>
       \/ \E e \in ConnectErrors :
            OnException(e, Append(conn_log, Event("connect", attempt, e, CurrentToken)))
    /\ UNCHANGED <<call_no, tokens_minted>>
    /\ UNCHANGED <<hvars, dvars>>

CNext == CallFactory \/ GetToken \/ Connect

-----------------------------------------------------------------------------
(* The functions applied to drawn tables and dates *)

\* Longest dbo.Birthdays table drawn
MaxRows == 3

Names == {"Alice", "Bob"}
Emails == {"a@x.com", "b@x.com"}
Date(y, m, d) == [year |-> y, month |-> m, day |-> d]
BirthDates == {Date(1990, 3, 14), Date(1985, 3, 14), Date(2000, 4, 14), Date(1985, 3, 1)}
ReferenceDates == {Date(2024, 3, 14), Date(2024, 4, 1)}

BirthdayRecords == [FullName : Names, date_of_birth : BirthDates, EmailTo : Emails]
Tables == UNION {[1..n -> BirthdayRecords] : n \in 0..MaxRows}

\* The table of the handlers' runs
SampleBirthdays ==
    << [FullName |-> "Alice", date_of_birth |-> Date(1990, 3, 14), EmailTo |-> "a@x.com"],
       [FullName |-> "Bob", date_of_birth |-> Date(1985, 3, 14), EmailTo |-> "b@x.com"],
       [FullName |-> "Carol", date_of_birth |-> Date(2000, 4, 1), EmailTo |-> "c@x.com"] >>

Applied(op, by, arg, res) == [op |-> op, by |-> by, arg |-> arg, res |-> res]

\* What a lookup was applied to: what the database did on its query
LookupArgs(o) == [db |-> o]
NoRet == Applied("none", NoHandler, NoDataFrame, Ok(NULL))

DIdle ==
    /\ Birthdays = SampleBirthdays
    /\ today = Date(2024, 3, 14)
    /\ ret = NoRet

DInit ==
    /\ Birthdays \in Tables
    /\ today \in ReferenceDates
    /\ ret = NoRet

\* sql_client.get_birthdays_for_date(today)
ApplyGetBirthdaysForDate ==
    /\ ret.op = "none"
    /\ \E o \in DbOutcomes :
        ret' = Applied("get_birthdays_for_date", NoHandler, LookupArgs(o),
                       get_birthdays_for_date(Birthdays, today, o))
    /\ UNCHANGED <<Birthdays, today>>
    /\ UNCHANGED <<hvars, cvars>>

\* sql_client.get_birthdays_for_month(today)
ApplyGetBirthdaysForMonth ==
    /\ ret.op = "none"
    /\ \E o \in DbOutcomes :
        ret' = Applied("get_birthdays_for_month", NoHandler, LookupArgs(o),
                       get_birthdays_for_month(Birthdays, today, o))
    /\ UNCHANGED <<Birthdays, today>>
    /\ UNCHANGED <<hvars, cvars>>

\* get_daily_birthdays(sql_client=sql_client)
ApplyGetDailyBirthdays ==
    /\ ret.op = "none"
    /\ \E o \in DbOutcomes :
        ret' = Applied("get_daily_birthdays", NoHandler, LookupArgs(o),
                       get_daily_birthdays({"sql_client"}, Birthdays, today, o))
    /\ UNCHANGED <<Birthdays, today>>
    /\ UNCHANGED <<hvars, cvars>>

\* get_monthly_birthday_summary(sql_client=sql_client)
ApplyGetMonthlyBirthdaySummary ==
    /\ ret.op = "none"
    /\ \E o \in DbOutcomes :
        ret' = Applied("get_monthly_birthday_summary", NoHandler, LookupArgs(o),
                       get_monthly_birthday_summary({"sql_client"}, Birthdays, today, o))
    /\ UNCHANGED <<Birthdays, today>>
    /\ UNCHANGED <<hvars, cvars>>

\* The send call of handler h, applied to the DataFrame its lookup returned
ApplySend(h) ==
    /\ ret.op = IF h \in MonthlyHandlers THEN "get_monthly_birthday_summary"
                ELSE "get_daily_birthdays"
    /\ ret.res.raised = NoExc
    /\ ret' = Applied("send", h, ret.res.value, CallSend(h, ret.res.value))
    /\ UNCHANGED <<Birthdays, today>>
    /\ UNCHANGED <<hvars, cvars>>

DNext ==
    \/ ApplyGetBirthdaysForDate
    \/ ApplyGetBirthdaysForMonth
    \/ ApplyGetDailyBirthdays
    \/ ApplyGetMonthlyBirthdaySummary
    \/ \E h \in Handlers : ApplySend(h)

-----------------------------------------------------------------------------
(* The audit methods of SqlClient called directly, with any id *)

\* Number of calls of start_system_event and complete_system_event followed
MaxAuditCalls == 3

\* The arguments of a call: seq numbers the calls, db is what the database
\* did on it
AuditArgs(seq, system_event_id, status, details, db) ==
    [seq |-> seq, system_event_id |-> system_event_id, status |-> status,
     details |-> details, db |-> db]

AInit ==
    /\ HInit
    /\ CIdle
    /\ Birthdays = SampleBirthdays
    /\ today = Date(2024, 3, 14)
    /\ ret = Applied("none", NoHandler, AuditArgs(0, NoId, NULL, NULL, NoExc), Ok(NoId))

\* sql_client.start_system_event(function_name=..., trigger_type="timer",
\* event_type="ingestion")
ApplyStartSystemEvent(h) ==
    /\ ret.arg.seq < MaxAuditCalls
    /\ \E o \in DbOutcomes :
        LET r == start_system_event(system_events, FunctionName(h), "timer",
                                    "ingestion", "started", NULL, clock, 0, o)
        IN /\ system_events' = r.table
           /\ clock' = IF r.raised = NoExc THEN clock + 1 ELSE clock
           /\ ret' = Applied("start_system_event", NoHandler,
                             AuditArgs(ret.arg.seq + 1, NoId, "started", NULL, o),
                             [raised |-> r.raised, value |-> r.value])
    /\ UNCHANGED <<handler, pc, system_event, exc, response, trace, summary_df>>
    /\ UNCHANGED <<Birthdays, today, cvars>>

\* sql_client.complete_system_event(system_event_id=id, status=status,
\* details=details), id being the id of a row or an id no row has
ApplyCompleteSystemEvent(id, status, details) ==
    /\ ret.arg.seq < MaxAuditCalls
    /\ \E o \in DbOutcomes :
        LET r == complete_system_event(system_events, id, status, details, clock, o)
        IN /\ system_events' = r.table
           /\ clock' = IF r.raised = NoExc THEN clock + 1 ELSE clock
           /\ ret' = Applied("complete_system_event", NoHandler,
                             AuditArgs(ret.arg.seq + 1, id, status, details, o),
                             [raised |-> r.raised, value |-> NoId])
    /\ UNCHANGED <<handler, pc, system_event, exc, response, trace, summary_df>>
    /\ UNCHANGED <<Birthdays, today, cvars>>

ANext ==
    \/ \E h \in {"MonthlyBirthdaySummary", "DailyBirthdaySummary"} :
            ApplyStartSystemEvent(h)
    \/ \E id \in 1..(Len(system_events) + 1), status \in {"succeeded", "failed"},
          details \in {NULL, "boom"} :
            ApplyCompleteSystemEvent(id, status, details)

-----------------------------------------------------------------------------
(* Specifications *)

Init == HInit /\ DIdle /\ CIdle
Next == HNext
Spec == Init /\ [][Next]_vars

InitConn == HInit /\ DIdle /\ CIdle
NextConn == CNext
SpecConn == InitConn /\ [][NextConn]_vars

InitData == HInit /\ DInit /\ CIdle
NextData == DNext
SpecData == InitData /\ [][NextData]_vars

\* Every database call and every function call of a running handler
\* eventually returns or raises; the host need not invoke anything
Fairness ==
    \A i \in Invocations :
        /\ WF_vars(StartSystemEvent(i))
        /\ WF_vars(TryStep(i))
        /\ WF_vars(ExceptStep(i))
SpecFair == Init /\ [][Next]_vars /\ Fairness

InitAudit == AInit
NextAudit == ANext
SpecAudit == InitAudit /\ [][NextAudit]_vars

-----------------------------------------------------------------------------
(* What the claims speak about *)

\* The invocation has ended: it returned to the host or raised past the handler
Ended(i) == pc[i] \in {"returned", "raised"}

\* The rows of dbo.system_events inserted by invocation i
RowsOf(i) == {k \in DOMAIN system_events : system_events[k].session = i}

\* Call c of invocation i was made and returned / raised
Returned(i, c) ==
    \E n \in DOMAIN trace[i] : trace[i][n].call = c /\ trace[i][n].raised = NoExc
Raised(i, c) ==
    \E n \in DOMAIN trace[i] : trace[i][n].call = c /\ trace[i][n].raised # NoExc

TryCalls == {"fetch", "send", "complete_system_event(succeeded)"}

\* The exception the except block of invocation i caught
Caught(i) ==
    LET n == CHOOSE n \in DOMAIN trace[i] :
                trace[i][n].call \in TryCalls /\ trace[i][n].raised # NoExc
    IN trace[i][n].raised

Terminal == {"succeeded", "failed"}

-----------------------------------------------------------------------------
(* C1 *)

-----------------------------------------------------------------------------
(* C2 *)

\* C2 as stated: after an invocation has ended, exactly one row of
\* dbo.system_events is attributable to it, also when start_system_event
\* failed.
C2_Original ==
    \A i \in Invocations : Ended(i) => Cardinality(RowsOf(i)) = 1

\* C2 amended: an invocation never has more than one row; once
\* start_system_event has returned it has exactly one, whose id is the one
\* the handler holds; when start_system_event raised it has none.
C2_OneRowIffStarted ==
    \A i \in Invocations :
        /\ Cardinality(RowsOf(i)) <= 1
        /\ Returned(i, "start_system_event") =>
              /\ Cardinality(RowsOf(i)) = 1
              /\ \A k \in RowsOf(i) : system_events[k].id = system_event[i]
              /\ Cardinality({k \in DOMAIN system_events :
                                system_events[k].id = system_event[i]}) = 1
        /\ ~Returned(i, "start_system_event") => RowsOf(i) = {}

\* One invocation has ended with its one row while another ended with none
C2_Witness ==
    \E i, j \in Invocations :
        /\ Ended(i) /\ Cardinality(RowsOf(i)) = 1
        /\ Ended(j) /\ Raised(j, "start_system_event") /\ RowsOf(j) = {}

-----------------------------------------------------------------------------
(* C3 *)

\* C3 as stated: an invocation of a timer handler never raises past the
\* handler boundary, whatever operation fails.
C3_TimerNeverRaises ==
    \A i \in Invocations : handler[i] \in TimerHandlers => pc[i] # "raised"

-----------------------------------------------------------------------------
(* C4 *)

-----------------------------------------------------------------------------
(* C5 *)

\* C5 as stated: in an HTTP test handler, whenever fetch or send raised,
\* the invocation ends by returning a 500 response whose body carries
\* status, message and the id of the row this invocation created, that row
\* being 'failed'; nothing is raised to the host.
C5_HttpFailureResponse ==
    \A i \in Invocations :
        (/\ handler[i] \in HttpHandlers
         /\ Ended(i)
         /\ Raised(i, "fetch") \/ Raised(i, "send"))
        => /\ pc[i] = "returned"
           /\ response[i].status_code = 500
           /\ DOMAIN response[i].body = {"status", "message", "system_event_id"}
           /\ \E k \in RowsOf(i) :
                /\ response[i].body.system_event_id = UuidStr(system_events[k].id)
                /\ system_events[k].status = "failed"

-----------------------------------------------------------------------------
(* C6 *)

-----------------------------------------------------------------------------
(* C7 *)

\* The entries of the call's log for attempt a that ended in an exception
FailuresOf(a) ==
    {n \in DOMAIN conn_log : conn_log[n].attempt = a /\ conn_log[n].raised # NoExc}

\* The entries of the call's log that are a connection made
Connected ==
    {n \in DOMAIN conn_log : conn_log[n].ev = "connect" /\ conn_log[n].raised = NoExc}

\* C7: a call of _get_connection makes at most 3 attempts and none after a
\* successful one; when it returns it returns the connection of its last
\* attempt, every earlier attempt having failed, and no error (so after
\* attempts 1 and 2 failed and 3 succeeded: the connection of attempt 3);
\* when it raises, attempts 1, 2 and 3 have all failed and the exception
\* raised is the one of attempt 3.
C7_RetryThenLastError ==
    /\ attempt <= 3
    /\ \A n \in DOMAIN conn_log : conn_log[n].attempt \in 1..3
    /\ \A n \in Connected : n = Len(conn_log)
    /\ cpc = "returned" =>
          /\ Connected # {}
          /\ conn_result.raised = NoExc
          /\ conn_result.value.attempt = conn_log[Len(conn_log)].attempt
          /\ conn_result.value.token = conn_log[Len(conn_log)].n
          /\ \A a \in 1..(conn_result.value.attempt - 1) : FailuresOf(a) # {}
    /\ cpc = "raised" =>
          /\ Connected = {}
          /\ \A a \in 1..3 : Cardinality(FailuresOf(a)) = 1
          /\ \A n \in FailuresOf(3) : conn_result.raised = conn_log[n].raised
    /\ cpc \in {"returned", "raised"} <=> \/ Connected # {}
                                          \/ FailuresOf(3) # {}

\* A call has raised after three failed attempts whose first and last
\* exceptions differ
C7_Witness ==
    /\ cpc = "raised"
    /\ \E n \in FailuresOf(1), m \in FailuresOf(3) :
          conn_log[n].raised # conn_log[m].raised

-----------------------------------------------------------------------------
(* C8 *)

\* The records of the table with the month and day of date d
SameMonthAndDay(d) ==
    {k \in DOMAIN Birthdays :
        /\ Birthdays[k].date_of_birth.month = d.month
        /\ Birthdays[k].date_of_birth.day = d.day}

\* C8: get_birthdays_for_date(D) returns one row {name, email_to} per
\* record whose date_of_birth has D's month and day, whatever its year, and
\* no other row, ordered by email_to and then by name.
C8_BirthdaysForDate ==
    (ret.op = "get_birthdays_for_date" /\ ret.res.raised = NoExc) =>
        LET out == ret.res.value
        IN /\ Len(out) = Cardinality(SameMonthAndDay(today))
           /\ \A n \in Names, e \in Emails :
                Cardinality({i \in DOMAIN out : out[i] = [name |-> n, email_to |-> e]})
                  = Cardinality({k \in SameMonthAndDay(today) :
                                    /\ Birthdays[k].FullName = n
                                    /\ Birthdays[k].EmailTo = e})
           /\ \A i, j \in DOMAIN out :
                i < j =>
                    \/ Collate(out[i].email_to) < Collate(out[j].email_to)
                    \/ /\ out[i].email_to = out[j].email_to
                       /\ Collate(out[i].name) <= Collate(out[j].name)

\* The query returned two records born in different years, in the order
\* opposite to the table's, while a record of the same day in another month
\* was left out
C8_Witness ==
    /\ ret.op = "get_birthdays_for_date"
    /\ ret.res.raised = NoExc
    /\ Len(ret.res.value) = 2
    /\ Len(Birthdays) = 3
    /\ \E k, m, x \in DOMAIN Birthdays :
          /\ k < m
          /\ {k, m} = SameMonthAndDay(today)
          /\ Birthdays[k].date_of_birth.year # Birthdays[m].date_of_birth.year
          /\ ret.res.value[1].name = Birthdays[m].FullName
          /\ ret.res.value[1].name # Birthdays[k].FullName
          /\ Birthdays[x].date_of_birth.day = today.day
          /\ Birthdays[x].date_of_birth.month # today.month

-----------------------------------------------------------------------------
(* C9 *)

\* The records of the table with the month of date d
SameMonth(d) ==
    {k \in DOMAIN Birthdays : Birthdays[k].date_of_birth.month = d.month}

BirthDays == {d.day : d \in BirthDates}

\* C9: get_birthdays_for_month(D) returns one row {name, birthday_day,
\* email_to} per record whose date_of_birth has D's month, birthday_day
\* being the day of its date_of_birth, and no row of another month,
\* ordered by email_to, then by day, then by name.
C9_BirthdaysForMonth ==
    (ret.op = "get_birthdays_for_month" /\ ret.res.raised = NoExc) =>
        LET out == ret.res.value
        IN /\ Len(out) = Cardinality(SameMonth(today))
           /\ \A n \in Names, e \in Emails, d \in BirthDays :
                Cardinality({i \in DOMAIN out :
                                out[i] = [name |-> n, birthday_day |-> d, email_to |-> e]})
                  = Cardinality({k \in SameMonth(today) :
                                    /\ Birthdays[k].FullName = n
                                    /\ Birthdays[k].EmailTo = e
                                    /\ Birthdays[k].date_of_birth.day = d})
           /\ \A i, j \in DOMAIN out :
                i < j =>
                    \/ Collate(out[i].email_to) < Collate(out[j].email_to)
                    \/ /\ out[i].email_to = out[j].email_to
                       /\ out[i].birthday_day < out[j].birthday_day
                    \/ /\ out[i].email_to = out[j].email_to
                       /\ out[i].birthday_day = out[j].birthday_day
                       /\ Collate(out[i].name) <= Collate(out[j].name)

\* The query returned two records of one recipient, the later day's name
\* collating first, and left out a record of another month
C9_Witness ==
    /\ ret.op = "get_birthdays_for_month"
    /\ ret.res.raised = NoExc
    /\ Len(ret.res.value) = 2
    /\ Len(Birthdays) = 3
    /\ ret.res.value[1].email_to = ret.res.value[2].email_to
    /\ ret.res.value[1].birthday_day < ret.res.value[2].birthday_day
    /\ Collate(ret.res.value[2].name) < Collate(ret.res.value[1].name)
    /\ \E x \in DOMAIN Birthdays : Birthdays[x].date_of_birth.month # today.month

-----------------------------------------------------------------------------
(* C10 *)

\* C10 as stated: a handler's send call, made the way the handler makes
\* it, with a DataFrame of no rows calls the email provider zero times and
\* returns without raising.
C10_EmptySendIsNoOp ==
    (ret.op = "send" /\ Len(ret.arg.rows) = 0) =>
        /\ ret.res.provider_calls = 0
        /\ ret.res.raised = NoExc

-----------------------------------------------------------------------------
(* C11 *)

\* The rows whose id is the id passed to the call
Matching(tbl, id) == {k \in DOMAIN tbl : tbl[k].id = id}

\* C11: a call of complete_system_event neither adds nor removes a row and
\* leaves every row with another id unchanged; with an id no row has it
\* changes nothing and raises nothing (the database answering); with the id
\* of a row it sets that row's status, details and completed_at and nothing
\* else.
C11_CompleteFrame ==
    [][ (ret'.op = "complete_system_event" /\ ret'.arg.seq # ret.arg.seq) =>
          LET a == ret'.arg
          IN /\ Len(system_events') = Len(system_events)
             /\ \A k \in DOMAIN system_events :
                  system_events[k].id # a.system_event_id =>
                      system_events'[k] = system_events[k]
             /\ Matching(system_events, a.system_event_id) = {} =>
                  /\ system_events' = system_events
                  /\ a.db = NoExc => ret'.res.raised = NoExc
             /\ \A k \in Matching(system_events, a.system_event_id) :
                  IF a.db = NoExc
                  THEN system_events'[k] =
                          [system_events[k] EXCEPT !.status = a.status,
                                                   !.details = a.details,
                                                   !.completed_at = clock]
                  ELSE system_events'[k] = system_events[k] ]_vars

\* complete_system_event(status='failed', details given) has returned for
\* an id no row has, with a 'started' row in the table
C11_Witness ==
    /\ ret.op = "complete_system_event"
    /\ ret.res.raised = NoExc
    /\ ret.arg.status = "failed"
    /\ ret.arg.details # NULL
    /\ Matching(system_events, ret.arg.system_event_id) = {}
    /\ \E k \in DOMAIN system_events :
          /\ system_events[k].status = "started"
          /\ system_events[k].details = NULL
          /\ system_events[k].completed_at = NullTime

-----------------------------------------------------------------------------
(* C12 *)

\* C12: with invocations interleaved in any order, a step changes or adds
\* only rows of the invocation that takes it (the one whose trace grows),
\* and the status of every row is the one its own invocation's calls give
\* it: 'failed' iff its complete_system_event(status='failed') returned,
\* 'succeeded' iff its complete_system_event(status='succeeded') returned,
\* and 'started' otherwise.
C12_OwnRowOnly ==
    [][ /\ \A k \in DOMAIN system_events' :
            (k \notin DOMAIN system_events \/ system_events'[k] # system_events[k]) =>
                /\ system_events'[k].session \in Invocations
                /\ trace'[system_events'[k].session] # trace[system_events'[k].session]
                /\ system_events'[k].id = system_event'[system_events'[k].session]
        /\ \A i \in Invocations : \A k \in DOMAIN system_events' :
            system_events'[k].session = i =>
                system_events'[k].status =
                    IF \E n \in DOMAIN trace'[i] :
                          /\ trace'[i][n].call = "complete_system_event(failed)"
                          /\ trace'[i][n].raised = NoExc
                    THEN "failed"
                    ELSE IF \E n \in DOMAIN trace'[i] :
                               /\ trace'[i][n].call = "complete_system_event(succeeded)"
                               /\ trace'[i][n].raised = NoExc
                         THEN "succeeded"
                         ELSE "started" ]_vars

\* A timer run and an HTTP test run overlapped: the one that started later
\* completed its row first
C12_Witness ==
    \E i, j \in Invocations : \E k \in RowsOf(i), m \in RowsOf(j) :
        /\ handler[i] \in TimerHandlers
        /\ handler[j] \in HttpHandlers
        /\ system_events[k].started_at < system_events[m].started_at
        /\ system_events[m].completed_at # NullTime
        /\ system_events[m].completed_at < system_events[k].completed_at
        /\ system_events[k].status = "failed"
        /\ system_events[m].status = "failed"

-----------------------------------------------------------------------------
(* C13 *)

\* The n-th call of invocation i was call c and it returned
ReturnedAt(i, n, c) ==
    /\ n \in DOMAIN trace[i]
    /\ trace[i][n].call = c
    /\ trace[i][n].raised = NoExc

\* C13: in every invocation the calls come in the order start, fetch,
\* send, complete. The fetch is the second call, made after
\* start_system_event has returned and with the invocation's row committed;
\* the send is made only right after the fetch has returned;
\* complete_system_event(status='succeeded') only right after the send has
\* returned; and once the fetch has raised no send is made.
C13_StepOrder ==
    \A i \in Invocations :
        /\ \A n \in DOMAIN trace[i] :
            /\ trace[i][n].call = "start_system_event" => n = 1
            /\ trace[i][n].call = "fetch" =>
                  /\ n = 2
                  /\ ReturnedAt(i, 1, "start_system_event")
            /\ trace[i][n].call = "send" => ReturnedAt(i, n - 1, "fetch")
            /\ trace[i][n].call = "complete_system_event(succeeded)" =>
                  ReturnedAt(i, n - 1, "send")
        /\ (pc[i] = "fetch" \/ \E n \in DOMAIN trace[i] : trace[i][n].call = "fetch") =>
              \E k \in RowsOf(i) :
                  /\ system_events[k].id = system_event[i]
                  /\ system_events[k].started_at # NullTime
        /\ pc[i] = "fetch" => \A k \in RowsOf(i) : system_events[k].status = "started"
        /\ pc[i] = "send" => ReturnedAt(i, Len(trace[i]), "fetch")
        /\ pc[i] = "complete" => ReturnedAt(i, Len(trace[i]), "send")
        /\ Raised(i, "fetch") =>
              /\ pc[i] \notin {"send", "complete"}
              /\ \A n \in DOMAIN trace[i] : trace[i][n].call # "send"

\* An invocation has ended whose fetch raised after its row was committed
\* 'started': its calls were start, fetch, complete(failed)
C13_Witness ==
    \E i \in Invocations :
        /\ Ended(i)
        /\ Len(trace[i]) = 3
        /\ ReturnedAt(i, 1, "start_system_event")
        /\ trace[i][2].call = "fetch" /\ trace[i][2].raised # NoExc
        /\ trace[i][3].call = "complete_system_event(failed)"
        /\ RowsOf(i) # {}

-----------------------------------------------------------------------------
(* C14 *)

Running == {i \in Invocations : pc[i] \in {"start", "fetch", "send", "complete", "except"}}

-----------------------------------------------------------------------------
(* C15 *)

\* The entries of the call's log that are a wait
Sleeps == {n \in DOMAIN conn_log : conn_log[n].ev = "sleep"}

\* C15: within one call of _get_connection the wait after a failed attempt
\* 1 is 5 seconds and the wait after a failed attempt 2 is 10 seconds; a
\* wait directly follows a failed step of attempt 1 or 2 and nothing else
\* (none before attempt 1, none after a success, none after the failed
\* attempt 3), every failed attempt 1 or 2 is followed by its wait, and a
\* call that has done nothing yet is at attempt 1 with delay 5.
C15_Backoff ==
    /\ \A n \in Sleeps :
          /\ conn_log[n].attempt \in {1, 2}
          /\ conn_log[n].attempt = 1 => conn_log[n].n = 5
          /\ conn_log[n].attempt = 2 => conn_log[n].n = 10
          /\ n > 1
          /\ conn_log[n - 1].ev # "sleep"
          /\ conn_log[n - 1].raised # NoExc
          /\ conn_log[n - 1].attempt = conn_log[n].attempt
    /\ \A n \in DOMAIN conn_log :
          (conn_log[n].raised # NoExc /\ conn_log[n].attempt < 3) =>
              /\ n + 1 \in Sleeps
              /\ conn_log[n + 1].attempt = conn_log[n].attempt
    /\ \A n \in DOMAIN conn_log :
          (conn_log[n].raised # NoExc /\ conn_log[n].attempt = 3) =>
              (n = Len(conn_log) /\ cpc = "raised")
    /\ (cpc \in {"get_token", "connect"} /\ Sleeps = {}) =>
          (attempt = 1 /\ delay_seconds = 5)

\* The second call of the factory has failed three times, after waiting 5
\* and then 10 seconds
C15_Witness ==
    /\ call_no = 2
    /\ cpc = "raised"
    /\ \E n, m \in Sleeps :
          /\ n < m
          /\ conn_log[n].n = 5
          /\ conn_log[m].n = 10
    /\ conn_log[Len(conn_log)].ev = "connect"

-----------------------------------------------------------------------------
(* C16 *)

\* The entries of the call's log that are a pyodbc.connect attempt
Connects == {n \in DOMAIN conn_log : conn_log[n].ev = "connect"}

\* The entries of the call's log where minting the token failed
FailedMints ==
    {n \in DOMAIN conn_log : conn_log[n].ev = "get_token" /\ conn_log[n].raised # NoExc}

\* C16: every pyodbc.connect attempt directly follows a get_token call of
\* the same attempt and presents the token that call minted, which is the
\* newest token there is at that moment; no token is presented by two
\* connect attempts; a get_token that raises makes no connect in its
\* attempt, and is followed by the wait and a get_token of the next attempt
\* when it was attempt 1 or 2, by the raise when it was attempt 3.
C16_FreshToken ==
    /\ \A n \in Connects :
          /\ n > 1
          /\ conn_log[n - 1].ev = "get_token"
          /\ conn_log[n - 1].raised = NoExc
          /\ conn_log[n - 1].attempt = conn_log[n].attempt
          /\ conn_log[n - 1].n = conn_log[n].n
          /\ conn_log[n].n >= 1
          /\ conn_log[n].n <= tokens_minted
    /\ \A n, m \in Connects : conn_log[n].n = conn_log[m].n => n = m
    /\ cpc = "connect" =>
          /\ conn_log[Len(conn_log)].ev = "get_token"
          /\ conn_log[Len(conn_log)].n = tokens_minted
    /\ \A n \in FailedMints :
          /\ \A m \in Connects : conn_log[m].attempt # conn_log[n].attempt
          /\ conn_log[n].attempt < 3 =>
                /\ n + 1 \in Sleeps
                /\ \/ n + 1 = Len(conn_log) /\ cpc = "get_token"
                                          /\ attempt = conn_log[n].attempt + 1
                   \/ /\ n + 2 \in DOMAIN conn_log
                      /\ conn_log[n + 2].ev = "get_token"
                      /\ conn_log[n + 2].attempt = conn_log[n].attempt + 1
          /\ conn_log[n].attempt = 3 => (n = Len(conn_log) /\ cpc = "raised")
    /\ \A n \in DOMAIN conn_log : conn_log[n].attempt \in 1..3

\* Minting failed in attempt 1, attempt 2 connected with one token and
\* failed, attempt 3 connected with another
C16_Witness ==
    /\ cpc = "returned"
    /\ \E n \in FailedMints : conn_log[n].attempt = 1
    /\ \E n, m \in Connects :
          /\ conn_log[n].attempt = 2
          /\ conn_log[m].attempt = 3
          /\ conn_log[n].n # conn_log[m].n
          /\ conn_log[n].raised # NoExc
          /\ conn_log[m].raised = NoExc


-----------------------------------------------------------------------------
(* C17 *)

\* What the query under a lookup returns when it returns
QueryOf(op) ==
    IF op = "get_daily_birthdays" THEN SelectBirthdaysForDate(Birthdays, today)
    ELSE SelectBirthdaysForMonth(Birthdays, today)

\* C17: get_daily_birthdays and get_monthly_birthday_summary raise exactly
\* the exception their query raised, with no value returned, and otherwise
\* return a DataFrame whose rows are the rows the query returned, as many
\* and in the same order.
C17_PassThrough ==
    ret.op \in {"get_daily_birthdays", "get_monthly_birthday_summary"} =>
        IF ret.arg.db # NoExc
        THEN ret.res = Raise(ret.arg.db)
        ELSE /\ ret.res.raised = NoExc
             /\ Len(ret.res.value.rows) = Len(QueryOf(ret.op))
             /\ \A n \in 1..Len(QueryOf(ret.op)) :
                    ret.res.value.rows[n] = QueryOf(ret.op)[n]

\* The daily lookup has raised the error of its query, on a day when the
\* query would have returned rows
C17_Witness ==
    /\ ret.op = "get_daily_birthdays"
    /\ ret.arg.db \in DbErrors
    /\ ret.res.raised = ret.arg.db
    /\ Len(SelectBirthdaysForDate(Birthdays, today)) >= 2


-----------------------------------------------------------------------------
(* C18 *)

\* The lookup a handler calls in its fetch step
LookupOf(h) ==
    IF h \in MonthlyHandlers THEN "get_monthly_birthday_summary"
    ELSE "get_daily_birthdays"

\* C18: the fetch step of every invocation raises the TypeError of the
\* unexpected keyword system_event_id, whatever the database does, so no
\* birthday query result is ever held; no invocation reaches the send step
\* or calls complete_system_event(status='succeeded'), no row is
\* 'succeeded', and an invocation whose start succeeded and which has ended
\* made exactly the calls start, fetch (raising) and
\* complete_system_event(status='failed'). The send call of the daily
\* handlers passes a keyword send_daily_birthday_emails does not accept.
C18_FetchAlwaysRaises ==
    /\ \A i \in Invocations :
          /\ pc[i] \notin {"send", "complete"}
          /\ summary_df[i] = NoDataFrame
          /\ \A n \in DOMAIN trace[i] :
                /\ trace[i][n].call \notin {"send", "complete_system_event(succeeded)"}
                /\ trace[i][n].call = "fetch" =>
                      /\ trace[i][n].raised # NoExc
                      /\ trace[i][n].raised.type = "TypeError"
                      /\ trace[i][n].raised.args =
                            <<UnexpectedKeywordText(LookupOf(handler[i]), "system_event_id")>>
          /\ (Ended(i) /\ Returned(i, "start_system_event")) =>
                /\ Len(trace[i]) = 3
                /\ trace[i][2].call = "fetch"
                /\ trace[i][3].call = "complete_system_event(failed)"
    /\ \A k \in DOMAIN system_events : system_events[k].status # "succeeded"
    /\ BindKeywords("send_daily_birthday_emails", SendKwargs) # NoExc

\* A daily and a monthly invocation have both ended on the failure path
C18_Witness ==
    \E i, j \in Invocations :
        /\ handler[i] \in MonthlyHandlers
        /\ handler[j] \notin MonthlyHandlers
        /\ handler[j] # NoHandler
        /\ pc[i] = "returned"
        /\ pc[j] = "returned"
        /\ Raised(i, "fetch")
        /\ Raised(j, "fetch")
        /\ Returned(i, "complete_system_event(failed)")
        /\ Returned(j, "complete_system_event(failed)")

-----------------------------------------------------------------------------
(* C19 *)

\* C19: a row with status 'started' has no details and no completed_at, a
\* row with status 'succeeded' has no details, so only 'failed' rows carry
\* details text; and the completion the handlers make on success,
\* complete_system_event(id, status='succeeded') with details left at its
\* default, applied to any row of the table, leaves it 'succeeded' with no
\* details, whatever details the row had.
C19_DetailsOnlyOnFailed ==
    /\ \A k \in DOMAIN system_events :
          /\ system_events[k].status \in {"started", "succeeded", "failed"}
          /\ system_events[k].status = "started" =>
                /\ system_events[k].details = NULL
                /\ system_events[k].completed_at = NullTime
          /\ system_events[k].status = "succeeded" => system_events[k].details = NULL
          /\ system_events[k].details # NULL => system_events[k].status = "failed"
    /\ \A k \in DOMAIN system_events :
          LET done == complete_system_event(system_events, system_events[k].id,
                                            "succeeded", NULL, clock, NoExc).table
          IN /\ done[k].status = "succeeded"
             /\ done[k].details = NULL

\* One row is 'failed' with details text and a completion time while
\* another is still 'started'
C19_Witness ==
    \E k, m \in DOMAIN system_events :
        /\ system_events[k].status = "failed"
        /\ system_events[k].details # NULL
        /\ system_events[k].completed_at # NullTime
        /\ system_events[m].status = "started"

====
